---- MODULE Spec2Model ----
(***************************************************************************)
(* Model of the Swiss source-tax tariff pipeline:                          *)
(*   data_processing.py  process_txt_files / load_data / filter_data       *)
(*   visualization.py    create_base_figure                                *)
(*   main.py             create_dash_app and its Dash callbacks            *)
(*                                                                         *)
(* Text is a sequence of one-character strings.  A DataFrame is a sequence *)
(* of rows, a row a record of cells, a cell a tagged value:                *)
(*   t = "str"  a Python str, its characters in s                          *)
(*   t = "num"  an int64/float64 value  n + f/100  (f in 0..99)            *)
(*   t = "nan"  pandas' missing value NaN                                  *)
(*   t = "err"  the value of an expression that raised                     *)
(***************************************************************************)
EXTENDS Integers, Sequences, FiniteSets, TLC

VARIABLES
    files,       \* input/*.txt: the input files in shell-glob order, each a sequence of lines
    combined,    \* output/combined.txt: its lines, or NoFile
    cleaned_csv, \* output/tar25_cleaned.csv: the table written, or NoFile
    df,          \* the DataFrame process_txt_files builds
    df_src,      \* history: df_src[i] is the raw line row i of df was sliced from
    pc,          \* position of process_txt_files
    err,         \* the exception that ended process_txt_files, or "none"
    recreate_data, \* the recreate_data argument of load_data
    app_df,                 \* df_filtered, the table create_dash_app closes over
    loaded,                 \* the page has been loaded (the initial callbacks have run)
    current_language,       \* dcc.Store 'current-language'
    triggered,              \* the flag whose click ran update_language last, "." before any click
    flag_class,             \* className of the four flag images
    ui_labels,              \* children of the six labels
    dropdown_options,       \* options of the tariff, church-tax and region dropdowns
    ui_error,               \* the exception the last label or option callback raised, or "none"
    region_selector,        \* value of 'region-selector'
    canton_selector,        \* value of 'canton-selector'
    income_slider,          \* value of 'income-slider': <<x_min, x_max>>
    kirchensteuer_selector, \* value of 'kirchensteuer-selector'
    tarif_selector,         \* value of 'tarif-selector'
    children_selector,      \* value of 'children-selector'
    canton_plot,            \* figure of 'canton-plot'
    callback_error,         \* the exception the last update_figure call raised, or "none"
    events,                 \* number of user events so far
    par_rows,    \* parallel_apply: the rows handed to the workers
    chunk_of,    \* parallel_apply: chunk_of[i] is the worker that computes row i
    finished,    \* parallel_apply: the workers that have finished, in finishing order
    par_result   \* parallel_apply: the column assigned to df['tarif_code']

ingvars == <<files, combined, cleaned_csv, df, df_src, pc, err, recreate_data>>

langvars == <<triggered, flag_class, ui_labels, dropdown_options, ui_error>>

appvars == <<app_df, loaded, current_language, region_selector, canton_selector,
             income_slider, kirchensteuer_selector, tarif_selector,
             children_selector, canton_plot, callback_error, events, langvars>>

parvars == <<par_rows, chunk_of, finished, par_result>>

vars == <<ingvars, appvars, parvars>>

----------------------------------------------------------------------------
(* Bounds of the model *)

\* at most this many lines between the first file's header and the last file's footer
MaxBody == 2

\* at most this many data lines in the file the app's table is read from
MaxRows == 2

\* at most this many user events after the page load
MaxEvents == 2

\* slider stops taken between the ends of the slider
MaxSteps == 1

\* workers of the parallel map
MaxWorkers == 2

----------------------------------------------------------------------------
(* Text helpers *)

SP == " "

DigitChars == <<"0", "1", "2", "3", "4", "5", "6", "7", "8", "9">>

IsDigitChar(c) == \E i \in 1..Len(DigitChars) : DigitChars[i] = c

DigitVal(c) == (CHOOSE i \in 1..Len(DigitChars) : DigitChars[i] = c) - 1

Rep(c, n) == [i \in 1..n |-> c]

RECURSIVE Pow10(_)
Pow10(k) == IF k = 0 THEN 1 ELSE 10 * Pow10(k - 1)

\* the decimal digits of n, zero-filled to width w
ZeroPad(n, w) == [i \in 1..w |-> DigitChars[((n \div Pow10(w - i)) % 10) + 1]]

\* s left-justified in a field of width w
PadRight(s, w) == s \o Rep(SP, w - Len(s))

MinOf(S) == CHOOSE x \in S : \A y \in S : x <= y
MaxOf(S) == CHOOSE x \in S : \A y \in S : y <= x

----------------------------------------------------------------------------
(* Cells *)

Str(s) == [t |-> "str", s |-> s, n |-> 0, f |-> 0]
Num(n) == [t |-> "num", s |-> <<>>, n |-> n, f |-> 0]
Dec(n, f) == [t |-> "num", s |-> <<>>, n |-> n, f |-> f]
NaN == [t |-> "nan", s |-> <<>>, n |-> 0, f |-> 0]
Raised == [t |-> "err", s |-> <<>>, n |-> 0, f |-> 0]

\* a file of the output folder: absent, or present with its content
NoFile == [exists |-> FALSE, content |-> <<>>]
FileOf(c) == [exists |-> TRUE, content |-> c]

----------------------------------------------------------------------------
(* The record layout of process_txt_files *)

LineWidth == 62

\* the ranges with the child count typed one character too wide: (43, 46)
colspecsOverlap ==
    << <<0, 2>>, <<2, 4>>, <<4, 6>>, <<6, 16>>, <<16, 24>>, <<24, 33>>,
       <<33, 42>>, <<42, 43>>, <<43, 46>>, <<45, 54>>, <<54, 59>>, <<59, 62>> >>

\* half-open column ranges, as given to pd.read_fwf
colspecs ==
    << <<0, 2>>, <<2, 4>>, <<4, 6>>, <<6, 16>>, <<16, 24>>, <<24, 33>>,
       <<33, 42>>, <<42, 43>>, <<43, 45>>, <<45, 54>>, <<54, 59>>, <<59, 62>> >>

column_names ==
    << "recordart", "transaktionsart", "kanton", "code_tarif",
       "datum_gueltig_ab", "steuerbares_einkommen", "tarifschritt",
       "code_geschlecht", "anzahl_kinder", "mindeststeuer",
       "steuer_prozent", "code_status" >>

ColIndex(name) == CHOOSE k \in 1..Len(column_names) : column_names[k] = name

\* Python's line[from_:to]: clipped to the end of the line
Slice(line, from, to) ==
    SubSeq(line, from + 1, IF to < Len(line) THEN to ELSE Len(line))

\* str.rstrip() in place of str.strip(): leading blanks are kept
StripTrailingOnly(s) ==
    LET keep == {i \in 1..Len(s) : s[i] # SP}
    IN  IF keep = {} THEN <<>> ELSE SubSeq(s, 1, MaxOf(keep))

\* str.strip(): leading and trailing blanks removed
Strip(s) ==
    LET keep == {i \in 1..Len(s) : s[i] # SP}
    IN  IF keep = {} THEN <<>> ELSE SubSeq(s, MinOf(keep), MaxOf(keep))

\* FixedWidthReader.__next__: one stripped slice per column range
RowFields(line) ==
    [k \in 1..Len(colspecs) |-> Strip(Slice(line, colspecs[k][1], colspecs[k][2]))]

\* FixedWidthFieldParser._remove_empty_lines (skip_blank_lines defaults to
\* True): a row all of whose fields are empty is skipped
IsEmptyRow(line) == \A k \in 1..Len(colspecs) : RowFields(line)[k] = <<>>

\* `cat input/*.txt`: the files' lines one after another
RECURSIVE Concat(_)
Concat(fs) == IF fs = <<>> THEN <<>> ELSE Head(fs) \o Concat(Tail(fs))

\* the lines read_fwf turns into rows: skiprows=1 drops the first physical
\* line, skipfooter=1 the last one, and empty rows are skipped
DataLines(lines) ==
    IF Len(lines) < 2 THEN <<>>
    ELSE SelectSeq(SubSeq(lines, 2, Len(lines) - 1), LAMBDA l : ~IsEmptyRow(l))

----------------------------------------------------------------------------
(* pd.read_fwf: column type inference *)

\* the strings the parser reads as missing (of pandas' NA markers only the
\* empty field occurs in the input lines of this model)
IsNA(s) == s = <<>>

\* the field converts to a number
IsNumStr(s) == Len(s) > 0 /\ \A i \in 1..Len(s) : IsDigitChar(s[i])

RECURSIVE ParseNat(_)
ParseNat(s) ==
    IF s = <<>> THEN 0
    ELSE 10 * ParseNat(SubSeq(s, 1, Len(s) - 1)) + DigitVal(s[Len(s)])

\* a column becomes numeric when every field of it is a number or missing;
\* otherwise it stays an object column holding the strings as read
ColumnIsNumeric(raw, k) ==
    \A i \in 1..Len(raw) : IsNA(raw[i][k]) \/ IsNumStr(raw[i][k])

InferCell(raw, i, k) ==
    IF IsNA(raw[i][k]) THEN NaN
    ELSE IF ColumnIsNumeric(raw, k) THEN Num(ParseNat(raw[i][k]))
    ELSE Str(raw[i][k])

\* df = pd.read_fwf(combined_file, colspecs, names, skiprows=1, skipfooter=1)
\* followed by the (idempotent) strip of the object columns
ReadFwf(lines) ==
    LET data == DataLines(lines)
        raw  == [i \in 1..Len(data) |-> RowFields(data[i])]
    IN  [i \in 1..Len(raw) |->
            [c \in {column_names[k] : k \in 1..Len(column_names)} |->
                LET cell == InferCell(raw, i, ColIndex(c))
                IN  IF cell.t = "str" THEN Str(Strip(cell.s)) ELSE cell]]

\* dtype object: the column holds at least one str
IsObjectColumn(t, col) == \E i \in 1..Len(t) : t[i][col].t = "str"

----------------------------------------------------------------------------
(* Derived fields *)

\* Series.str[j] (j counted from 0): the character, NaN when there is none
StrGet(cell, j) ==
    IF cell.t = "str" /\ Len(cell.s) > j THEN Str(<<cell.s[j + 1]>>) ELSE NaN

\* pd.to_numeric(..., errors='coerce').notna() on code_tarif_two
IsInteger(cell) == cell.t = "str" /\ IsNumStr(cell.s)

\* Python's a + b on the values of a row
Add(a, b) ==
    IF a.t = "str" /\ b.t = "str" THEN Str(a.s \o b.s)
    ELSE IF a.t = "nan" /\ b.t = "nan" THEN NaN
    ELSE Raised

\* the lambda with its condition inverted
TarifCodeInverted(row) ==
    IF row.is_integer THEN Add(row.code_tarif_one, row.code_tarif_two)
    ELSE row.code_tarif_one

\* the lambda given to parallel_apply
TarifCode(row) ==
    IF ~row.is_integer THEN Add(row.code_tarif_one, row.code_tarif_two)
    ELSE row.code_tarif_one

SplitCode(row) ==
    LET r1 == row @@ [code_tarif_one |-> StrGet(row.code_tarif, 0),
                      code_tarif_two |-> StrGet(row.code_tarif, 1),
                      kirchensteuer  |-> StrGet(row.code_tarif, 2)]
        r2 == r1 @@ [is_integer |-> IsInteger(r1.code_tarif_two)]
    IN  r2 @@ [tarif_code |-> TarifCode(r2)]

\* Series.astype(float): a str is parsed, a str that is no number raises
AsFloat(cell) ==
    IF cell.t = "str"
    THEN IF IsNumStr(cell.s) THEN Num(ParseNat(cell.s)) ELSE Raised
    ELSE cell

\* x // 100: the decimals are lost
Div100Floor(cell) ==
    IF cell.t = "num" THEN Dec(cell.n \div 100, 0) ELSE cell

\* x / 100 in floating point: the quotient with its two decimals
Div100(cell) ==
    IF cell.t = "num" THEN Dec(cell.n \div 100, cell.n % 100) ELSE cell

Currency(cell) == Div100(AsFloat(cell))

CurrencyColumns == {"steuerbares_einkommen", "mindeststeuer", "steuer_prozent"}

ConvertCurrency(row) ==
    [c \in DOMAIN row |-> IF c \in CurrencyColumns THEN Currency(row[c]) ELSE row[c]]

\* the table process_txt_files builds from the lines of combined.txt
Decoded(lines) ==
    LET t0 == ReadFwf(lines)
    IN  [i \in 1..Len(t0) |-> ConvertCurrency(SplitCode(t0[i]))]

\* the exception process_txt_files ends with, "none" when it returns
DecodeError(lines) ==
    LET t0 == ReadFwf(lines)
        t1 == Decoded(lines)
    IN  IF t0 # <<>> /\ ~IsObjectColumn(t0, "code_tarif") THEN "AttributeError"
        ELSE IF \E i \in 1..Len(t1) : t1[i].tarif_code.t = "err" THEN "TypeError"
        ELSE IF \E i \in 1..Len(t1) : \E c \in CurrencyColumns : t1[i][c].t = "err"
             THEN "ValueError"
        ELSE "none"

----------------------------------------------------------------------------
(* filter_data *)

\* value <= k and value >= k for a float cell and an integer k (NaN compares False)
Le(cell, k) == cell.t = "num" /\ 100 * cell.n + cell.f <= 100 * k
Ge(cell, k) == cell.t = "num" /\ 100 * cell.n + cell.f >= 100 * k

\* the decimal digits of a natural number, as str() prints it
RECURSIVE NatText(_)
NatText(n) ==
    IF n < 10 THEN <<DigitChars[n + 1]>>
    ELSE NatText(n \div 10) \o <<DigitChars[(n % 10) + 1]>>

\* astype(str) on a value of the kanton column
KantonStr(cell) ==
    IF cell.t = "str" THEN cell
    ELSE IF cell.t = "nan" THEN Str(<<"n", "a", "n">>)
    ELSE Str(NatText(cell.n))

\* fillna(0).astype(int) on a value of the anzahl_kinder column
KinderInt(cell) ==
    IF cell.t = "nan" THEN Num(0)
    ELSE IF cell.t = "str"
         THEN IF IsNumStr(cell.s) THEN Num(ParseNat(cell.s)) ELSE Raised
    ELSE cell

\* cents of an income cell
Cents(cell) == 100 * cell.n + cell.f

\* the rows of t in ascending order of income
RECURSIVE SortedByIncome(_)
SortedByIncome(t) ==
    IF t = <<>> THEN <<>>
    ELSE LET m == CHOOSE i \in 1..Len(t) :
                      \A j \in 1..Len(t) :
                          \/ Cents(t[i].steuerbares_einkommen) < Cents(t[j].steuerbares_einkommen)
                          \/ /\ Cents(t[i].steuerbares_einkommen) = Cents(t[j].steuerbares_einkommen)
                             /\ i <= j
         IN  <<t[m]>> \o SortedByIncome(SubSeq(t, 1, m - 1) \o SubSeq(t, m + 1, Len(t)))

\* filter_data with a sort_values('steuerbares_einkommen') behind the mask
FilterDataSorted(t) ==
    SortedByIncome(SelectSeq(t, LAMBDA r : Le(r.steuerbares_einkommen, 30000)))

\* filter_data keeping the rows below the highest income of the table
\* instead of the rows up to 30 000
FilterDataBelowMax(t) ==
    SelectSeq(t, LAMBDA r : \E i \in 1..Len(t) :
                     Cents(r.steuerbares_einkommen) < Cents(t[i].steuerbares_einkommen))

\* df[df['steuerbares_einkommen'] <= 30_000].copy() with the two columns converted
FilterData(t) ==
    LET kept == SelectSeq(t, LAMBDA r : Le(r.steuerbares_einkommen, 30000))
    IN  [i \in 1..Len(kept) |->
            [c \in DOMAIN kept[i] |->
                IF c = "kanton" THEN KantonStr(kept[i][c])
                ELSE IF c = "anzahl_kinder" THEN KinderInt(kept[i][c])
                ELSE kept[i][c]]]

\* the exception filter_data ends with, "none" when it returns:
\* astype(int) raises on a kept row whose child count is no number
FilterError(t) ==
    IF \E i \in 1..Len(FilterData(t)) : FilterData(t)[i].anzahl_kinder.t = "err"
    THEN "ValueError"
    ELSE "none"

----------------------------------------------------------------------------
(* create_dash_app: tables and controls *)

\* Python's None as the value of a control
PyNone == [t |-> "none", s |-> <<>>, n |-> 0, f |-> 0]

\* the value of the multi-select canton dropdown: a list, or None
NoList == [is_none |-> TRUE, items |-> <<>>]
ListOf(items) == [is_none |-> FALSE, items |-> items]

\* region-selector with nothing selected
NoRegion == "None"

\* Series == scalar, element by element: NaN and None equal nothing
CellEq(a, b) ==
    \/ a.t = "str" /\ b.t = "str" /\ a.s = b.s
    \/ a.t = "num" /\ b.t = "num" /\ a.n = b.n /\ a.f = b.f

\* the order of Python's str comparison on the characters used
CharOrder ==
    <<"0", "1", "2", "3", "4", "5", "6", "7", "8", "9",
      "A", "B", "C", "D", "E", "F", "G", "H", "I", "J", "K", "L", "M",
      "N", "O", "P", "Q", "R", "S", "T", "U", "V", "W", "X", "Y", "Z", "_",
      "a", "b", "c", "d", "e", "f", "g", "h", "i", "j", "k", "l", "m",
      "n", "o", "p", "q", "r", "s", "t", "u", "v", "w", "x", "y", "z">>

CharRank(c) == CHOOSE i \in 1..Len(CharOrder) : CharOrder[i] = c

RECURSIVE StrLess(_, _)
StrLess(a, b) ==
    IF b = <<>> THEN FALSE
    ELSE IF a = <<>> THEN TRUE
    ELSE IF a[1] = b[1] THEN StrLess(Tail(a), Tail(b))
    ELSE CharRank(a[1]) < CharRank(b[1])

\* sorted(S) for a set of strings
RECURSIVE Sorted(_)
Sorted(S) ==
    IF S = {} THEN <<>>
    ELSE LET m == CHOOSE x \in S : \A y \in S \ {x} : StrLess(x, y)
         IN  <<m>> \o Sorted(S \ {m})

\* sorted(df['kanton'].unique())
SortedCantons(t) == Sorted({t[i].kanton.s : i \in 1..Len(t)})

\* canton_to_idx[canton], counted from 0
CantonIdx(cantons, canton) == (CHOOSE i \in 1..Len(cantons) : cantons[i] = canton) - 1

RECURSIVE Text(_)
Text(s) == IF s = <<>> THEN "" ELSE s[1] \o Text(Tail(s))

canton_names ==
    [AG |-> "Aargau (AG)", AI |-> "Appenzell Innerrhoden (AI)",
     AR |-> "Appenzell Ausserrhoden (AR)", BE |-> "Bern (BE)",
     BL |-> "Basel-Landschaft (BL)", BS |-> "Basel-Stadt (BS)",
     FR |-> "Fribourg (FR)", GE |-> "Geneva (GE)", GL |-> "Glarus (GL)",
     GR |-> "Graubuenden (GR)", JU |-> "Jura (JU)", LU |-> "Luzern (LU)",
     NE |-> "Neuchatel (NE)", NW |-> "Nidwalden (NW)", OW |-> "Obwalden (OW)",
     SG |-> "St. Gallen (SG)", SH |-> "Schaffhausen (SH)", SO |-> "Solothurn (SO)",
     SZ |-> "Schwyz (SZ)", TG |-> "Thurgau (TG)", TI |-> "Ticino (TI)",
     UR |-> "Uri (UR)", VD |-> "Vaud (VD)", VS |-> "Valais (VS)",
     ZG |-> "Zug (ZG)", ZH |-> "Zuerich (ZH)"]

\* canton_names.get(canton, canton)
CantonLabel(canton) ==
    IF Text(canton) \in DOMAIN canton_names THEN canton_names[Text(canton)]
    ELSE Text(canton)

language_regions ==
    [German |-> <<"AG", "AI", "AR", "BE", "BL", "BS", "GL", "GR", "LU", "NW",
                  "OW", "SG", "SH", "SO", "SZ", "TG", "UR", "ZG", "ZH">>,
     French |-> <<"FR", "GE", "JU", "NE", "VD", "VS">>,
     Italian |-> <<"TI">>,
     Multilingual |-> <<"BE", "FR", "GR", "VS">>]

Languages == {"en", "de", "fr", "it"}

\* the keys get_translations() defines for every language
TranslationKeys ==
    {"income_range", "tarif_code", "church_tax", "number_of_children",
     "language_region", "select_cantons", "monthly_income", "tax_rate",
     "source_tax_progression", "income_range_text", "no_data_available"}

translations == [l \in Languages |-> TranslationKeys]

\* a table of get_tarif_translations() etc.: per language the keys it
\* defines, in the order of the dict; the text under key k of language l is
\* written l:k
TarifKeys == <<"A", "B", "C", "D", "E", "G", "H", "L", "M", "N", "P", "Q">>

tarif_translations == [l \in Languages |-> TarifKeys]

kirchensteuer_translations == [l \in Languages |-> <<"N", "Y">>]

\* the options the layout is built with: formatted_tarif_options,
\* kirchensteuer_options and the region names themselves
LayoutOptions(keys) ==
    [k \in 1..Len(keys) |-> [label |-> "layout:" \o keys[k], value |-> keys[k]]]

\* language_regions.keys()
RegionKeys == <<"German", "French", "Italian", "Multilingual">>

\* the table with the Italian name of the Multilingual region left out
language_region_translations_gap ==
    [l \in Languages |-> IF l = "it" THEN {"German", "French", "Italian"}
                         ELSE {"German", "French", "Italian", "Multilingual"}]

language_region_translations ==
    [l \in Languages |-> {"German", "French", "Italian", "Multilingual"}]

\* the ids of the flag images and the language each stands for
FlagIds == {"flag-en", "flag-de", "flag-fr", "flag-it"}

NotTriggered == "."

update_language(button_id, current_lang) ==
    IF button_id = NotTriggered THEN current_lang
    ELSE IF button_id = "flag-en" THEN "en"
    ELSE IF button_id = "flag-de" THEN "de"
    ELSE IF button_id = "flag-fr" THEN "fr"
    ELSE IF button_id = "flag-it" THEN "it"
    ELSE current_lang

base_class == "language-flag"
active_class == "language-flag active"

update_flag_styling(language) ==
    [en |-> IF language = "en" THEN active_class ELSE base_class,
     de |-> IF language = "de" THEN active_class ELSE base_class,
     fr |-> IF language = "fr" THEN active_class ELSE base_class,
     it |-> IF language = "it" THEN active_class ELSE base_class]

\* the keys update_ui_labels looks up, in the order of its outputs
LabelKeys ==
    <<"income_range", "tarif_code", "church_tax", "number_of_children",
      "language_region", "select_cantons">>

update_ui_labels(language) ==
    IF \E k \in 1..Len(LabelKeys) : LabelKeys[k] \notin translations[language]
    THEN [raised |-> "KeyError", labels |-> <<>>]
    ELSE [raised |-> "none",
          labels |-> [k \in 1..Len(LabelKeys) |-> language \o ":" \o LabelKeys[k]]]

\* [{'label': table[language][key], 'value': key} for key in table[language].keys()]
OptionsOf(table, language) ==
    [k \in 1..Len(table[language]) |->
        [label |-> language \o ":" \o table[language][k], value |-> table[language][k]]]

update_dropdown_options(language) ==
    IF \E k \in 1..Len(RegionKeys) :
           RegionKeys[k] \notin language_region_translations[language]
    THEN [raised |-> "KeyError", options |-> <<>>]
    ELSE [raised |-> "none",
          options |->
             [tarif |-> OptionsOf(tarif_translations, language),
              kirchensteuer |-> OptionsOf(kirchensteuer_translations, language),
              region |-> [k \in 1..Len(RegionKeys) |->
                            [label |-> language \o ":" \o RegionKeys[k],
                             value |-> RegionKeys[k]]]]]

----------------------------------------------------------------------------
(* create_base_figure.  The figure is its traces and annotations; axis *)
(* ranges, grid shapes and label heights are layout and not represented. *)

GREY75 == "rgba(191, 191, 191, 0.8)"
GREY40 == "#666666"

COLOR_SCALE ==
    <<"#9A5CB4", "#3F8EFC", "#906C33", "#7B3A96", "#5D5D5D",
      "#3E8E75", "#5EFF5E", "#F0E68C", "#888888", "#4CA64C",
      "#A0522D", "#DDA0DD", "#FF00FF", "#000080", "#FFA500",
      "#FFC0CB", "#9ACD32", "#FF0000", "#40E0D0", "#48D1CC",
      "#8A2BE2", "#C71585", "#FF1493", "#8B0000", "#FFD32C",
      "#FF69B4">>

NoFigure == [kind |-> "none", title |-> "", traces |-> <<>>, annotations |-> <<>>]

\* the range taken without the margin of 1 on either side
LineRowsNoMargin(data, x_min, x_max) ==
    SelectSeq(data, LAMBDA r : /\ Ge(r.steuerbares_einkommen, x_min)
                               /\ Le(r.steuerbares_einkommen, x_max))

\* the range with its lower comparison left out
LineRowsNoLower(data, x_min, x_max) ==
    SelectSeq(data, LAMBDA r : Le(r.steuerbares_einkommen, x_max + 1))

\* the rows of a canton drawn as its line: income within [x_min - 1, x_max + 1]
LineRows(data, x_min, x_max) ==
    SelectSeq(data, LAMBDA r : /\ Ge(r.steuerbares_einkommen, x_min - 1)
                               /\ Le(r.steuerbares_einkommen, x_max + 1))

\* the row the label connector starts from: the last row up to x_max + 1,
\* the first row of the canton when there is none
DisplayRow(data, x_max) ==
    LET upto == SelectSeq(data, LAMBDA r : Le(r.steuerbares_einkommen, x_max + 1))
    IN  IF Len(upto) > 0 THEN upto[Len(upto)] ELSE data[1]

\* the three traces with the coloured line added before the grey one
CantonTracesColouredFirst(df_view, canton, idx, x_min, x_max) ==
    LET data == SelectSeq(df_view, LAMBDA r : r.kanton.s = canton)
        rows == LineRows(data, x_min, x_max)
        xs   == [i \in 1..Len(rows) |-> rows[i].steuerbares_einkommen]
        ys   == [i \in 1..Len(rows) |-> rows[i].steuer_prozent]
        last == DisplayRow(data, x_max)
    IN  << [name |-> Text(canton) \o "_colored", legendgroup |-> Text(canton),
            x |-> xs, y |-> ys, visible |-> FALSE,
            color |-> COLOR_SCALE[(idx % Len(COLOR_SCALE)) + 1], width |-> "2"],
           [name |-> Text(canton), legendgroup |-> Text(canton), x |-> xs, y |-> ys,
            visible |-> TRUE, color |-> GREY75, width |-> "1.5"],
           [name |-> "", legendgroup |-> Text(canton),
            x |-> <<last.steuerbares_einkommen>>, y |-> <<last.steuer_prozent>>,
            visible |-> TRUE, color |-> GREY75, width |-> "1"] >>

\* the three traces added for one canton: grey line, coloured line, connector
CantonTraces(df_view, canton, idx, x_min, x_max) ==
    LET data == SelectSeq(df_view, LAMBDA r : r.kanton.s = canton)
        rows == LineRows(data, x_min, x_max)
        xs   == [i \in 1..Len(rows) |-> rows[i].steuerbares_einkommen]
        ys   == [i \in 1..Len(rows) |-> rows[i].steuer_prozent]
        last == DisplayRow(data, x_max)
    IN  << [name |-> Text(canton), legendgroup |-> Text(canton), x |-> xs, y |-> ys,
            visible |-> TRUE, color |-> GREY75, width |-> "1.5"],
           [name |-> Text(canton) \o "_colored", legendgroup |-> Text(canton),
            x |-> xs, y |-> ys, visible |-> FALSE,
            color |-> COLOR_SCALE[(idx % Len(COLOR_SCALE)) + 1], width |-> "2"],
           [name |-> "", legendgroup |-> Text(canton),
            x |-> <<last.steuerbares_einkommen>>, y |-> <<last.steuer_prozent>>,
            visible |-> TRUE, color |-> GREY75, width |-> "1"] >>

RECURSIVE AllTraces(_, _, _, _, _)
AllTraces(df_view, cantons, k, x_min, x_max) ==
    IF k > Len(cantons) THEN <<>>
    ELSE CantonTraces(df_view, cantons[k], k - 1, x_min, x_max)
             \o AllTraces(df_view, cantons, k + 1, x_min, x_max)

create_base_figure(df_view, x_min, x_max, title) ==
    LET cantons == SortedCantons(df_view)
    IN  [kind |-> "chart",
         title |-> title,
         traces |-> AllTraces(df_view, cantons, 1, x_min, x_max),
         annotations |->
            [k \in 1..Len(cantons) |->
                [text |-> CantonLabel(cantons[k]), color |-> GREY40, size |-> 10]]
            \o << [text |-> "subtitle", color |-> "black", size |-> 14],
                   [text |-> "income_range_text", color |-> "black", size |-> 14] >>]

----------------------------------------------------------------------------
(* update_figure *)

\* the mask with its last & written as |
FilteredViewOr(t, kirchensteuer, tarif_code, children) ==
    SelectSeq(t, LAMBDA r : \/ /\ CellEq(r.kirchensteuer, kirchensteuer)
                               /\ CellEq(r.tarif_code, tarif_code)
                            \/ CellEq(r.anzahl_kinder, children))

\* the rows selected by the three dropdowns
FilteredView(t, kirchensteuer, tarif_code, children) ==
    SelectSeq(t, LAMBDA r : /\ CellEq(r.kirchensteuer, kirchensteuer)
                            /\ CellEq(r.tarif_code, tarif_code)
                            /\ CellEq(r.anzahl_kinder, children))

\* the loop with the two branches of `if canton in selected_cantons` exchanged
HighlightSwapped(fig, cantons, selected) ==
    LET sel(k) == ~ \E j \in 1..Len(selected) : selected[j] = Text(cantons[k])
    IN  [fig EXCEPT
           !.traces =
              [p \in 1..Len(fig.traces) |->
                 LET k == ((p - 1) \div 3) + 1
                     part == (p - 1) % 3
                 IN  IF k > Len(cantons) THEN fig.traces[p]
                     ELSE IF part = 0 THEN [fig.traces[p] EXCEPT !.visible = ~sel(k)]
                     ELSE IF part = 1 THEN [fig.traces[p] EXCEPT !.visible = sel(k)]
                     ELSE fig.traces[p]]]

\* the loop without the assignment that hides the grey line of a selected canton
HighlightKeepsGrey(fig, cantons, selected) ==
    LET sel(k) == \E j \in 1..Len(selected) : selected[j] = Text(cantons[k])
    IN  [fig EXCEPT
           !.traces =
              [p \in 1..Len(fig.traces) |->
                 LET k == ((p - 1) \div 3) + 1
                     part == (p - 1) % 3
                 IN  IF k > Len(cantons) THEN fig.traces[p]
                     ELSE IF part = 1 THEN [fig.traces[p] EXCEPT !.visible = sel(k)]
                     ELSE fig.traces[p]]]

\* the loop over the cantons of the view: the coloured line of a selected
\* canton is shown and its grey line hidden, and the reverse for the others
Highlight(fig, cantons, selected) ==
    LET sel(k) == \E j \in 1..Len(selected) : selected[j] = Text(cantons[k])
        colour(k) == COLOR_SCALE[((k - 1) % Len(COLOR_SCALE)) + 1]
    IN  [fig EXCEPT
           !.traces =
              [p \in 1..Len(fig.traces) |->
                 LET k == ((p - 1) \div 3) + 1
                     part == (p - 1) % 3
                 IN  IF k > Len(cantons) THEN fig.traces[p]
                     ELSE IF part = 0 THEN [fig.traces[p] EXCEPT !.visible = ~sel(k)]
                     ELSE IF part = 1 THEN [fig.traces[p] EXCEPT !.visible = sel(k)]
                     ELSE [fig.traces[p] EXCEPT
                              !.color = IF sel(k) THEN colour(k)
                                        ELSE "rgba(191, 191, 191, 0.5)",
                              !.width = IF sel(k) THEN "1.5" ELSE "1"]],
           !.annotations =
              [a \in 1..Len(fig.annotations) |->
                 IF a > Len(cantons) THEN fig.annotations[a]
                 ELSE [fig.annotations[a] EXCEPT
                          !.color = IF sel(a) THEN colour(a) ELSE GREY40,
                          !.size = IF sel(a) THEN 12 ELSE 10]]]

\* `translations` is assigned in the body of update_figure (line 675), so the
\* name is local to the whole function: the empty-view branch reads it at
\* line 651 before it is bound
PlaceholderBranch(language) ==
    [raised |-> "UnboundLocalError", figure |-> NoFigure]

\* what one call of update_figure returns, or the exception it raises
update_figure(t, selected_cantons, income_range, kirchensteuer, tarif_code, children, language) ==
    LET df_filtered_view == FilteredView(t, kirchensteuer, tarif_code, children)
    IN  IF df_filtered_view = <<>> THEN PlaceholderBranch(language)
        ELSE IF "source_tax_progression" \notin translations[language]
             THEN [raised |-> "KeyError", figure |-> NoFigure]
        ELSE IF selected_cantons.is_none
             THEN [raised |-> "TypeError", figure |-> NoFigure]
        ELSE [raised |-> "none",
              figure |->
                 Highlight(create_base_figure(df_filtered_view, income_range[1],
                                              income_range[2],
                                              language \o ":source_tax_progression"),
                           SortedCantons(df_filtered_view), selected_cantons.items)]

----------------------------------------------------------------------------
(* Input lines the model draws the files from *)

\* a line in the record layout, its fields in column order
MkLine(rec, kt, code, inc, kids, mind, proz) ==
    rec \o <<"0", "1">> \o kt \o PadRight(code, 10)
        \o <<"2", "0", "2", "5", "0", "1", "0", "1">>
        \o inc \o ZeroPad(5000, 9) \o <<SP>> \o kids \o mind \o proz \o Rep(SP, 3)

RecA0N ==
    MkLine(<<"0", "6">>, <<"Z", "H">>, <<"A", "0", "N">>, ZeroPad(3000, 9),
           <<"0", "0">>, ZeroPad(0, 9), ZeroPad(150, 5))

RecAAY ==
    MkLine(<<"0", "6">>, <<"B", "E">>, <<"A", "A", "Y">>, ZeroPad(1234567, 9),
           <<"0", "1">>, ZeroPad(1050, 9), ZeroPad(1234, 5))

\* the tariff code right-aligned in its field
RecB1Y ==
    MkLine(<<"0", "6">>, <<"Z", "H">>, Rep(SP, 7) \o <<"B", "1", "Y">>, ZeroPad(500099, 9),
           <<"0", "1">>, ZeroPad(99, 9), ZeroPad(5, 5))

\* a tariff code of one character
RecOneChar ==
    MkLine(<<"0", "6">>, <<"B", "E">>, <<"A">>, ZeroPad(3000, 9),
           <<"0", "0">>, ZeroPad(0, 9), ZeroPad(150, 5))

\* an empty tariff field
RecNoCode ==
    MkLine(<<"0", "6">>, <<"B", "E">>, <<>>, ZeroPad(3000, 9),
           <<"0", "0">>, ZeroPad(0, 9), ZeroPad(150, 5))

\* a record cut off after the child count: 45 characters
RecShort == SubSeq(RecA0N, 1, 45)

\* a tax percent that is no number
RecBadAmount ==
    MkLine(<<"0", "6">>, <<"Z", "H">>, <<"A", "0", "N">>, ZeroPad(3000, 9),
           <<"0", "0">>, ZeroPad(0, 9), <<"1", "2", "A", "4", "5">>)

\* an empty tax percent field
RecNoAmount ==
    MkLine(<<"0", "6">>, <<"Z", "H">>, <<"A", "0", "N">>, ZeroPad(3000, 9),
           <<"0", "0">>, ZeroPad(0, 9), Rep(SP, 5))

\* a child count that is no number
RecBadKids ==
    MkLine(<<"0", "6">>, <<"Z", "H">>, <<"A", "0", "N">>, ZeroPad(3000, 9),
           <<"X", "X">>, ZeroPad(0, 9), ZeroPad(150, 5))

\* an empty child count field
RecNoKids ==
    MkLine(<<"0", "6">>, <<"Z", "H">>, <<"A", "0", "N">>, ZeroPad(3000, 9),
           Rep(SP, 2), ZeroPad(0, 9), ZeroPad(150, 5))

\* a line of blanks, as wide as a record
BlankLine == Rep(SP, LineWidth)

\* the header and footer records of a tariff file
HeaderLine == <<"0", "0">> \o Rep(SP, 2) \o <<"Z", "H">> \o Rep(SP, LineWidth - 6)
FooterLine == <<"9", "9">> \o Rep(SP, 2) \o <<"Z", "H">> \o Rep(SP, LineWidth - 6)

BodyLines ==
    {RecA0N, RecAAY, RecB1Y, RecOneChar, RecNoCode, BlankLine, HeaderLine, FooterLine,
     RecShort, RecBadAmount, RecNoAmount, RecBadKids, RecNoKids}

Bodies == UNION {[1..n -> BodyLines] : n \in 0..MaxBody}

\* the lines cut into files after the positions in cuts
RECURSIVE Split(_, _)
Split(lines, cuts) ==
    IF cuts = {} THEN <<lines>>
    ELSE LET p == MinOf(cuts)
         IN  <<SubSeq(lines, 1, p)>>
                 \o Split(SubSeq(lines, p + 1, Len(lines)), {c - p : c \in cuts \ {p}})

\* the slider's initial value taken from the defaults of create_base_figure
DefaultIncomeRangeOfFigure == <<0, 30000>>

\* value=[2000, 10000] of the income slider
DefaultIncomeRange == <<2000, 10000>>

\* no parallel_apply is under way
NoParallelApply ==
    /\ par_rows = <<>>
    /\ chunk_of = <<>>
    /\ finished = <<>>
    /\ par_result = <<>>

\* the component values create_dash_app puts in the layout
LayoutDefaults ==
    /\ loaded = FALSE
    /\ current_language = "en"
    /\ triggered = NotTriggered
    /\ flag_class = [en |-> active_class, de |-> base_class,
                     fr |-> base_class, it |-> base_class]
    /\ ui_labels = [k \in 1..Len(LabelKeys) |-> "layout:" \o LabelKeys[k]]
    /\ dropdown_options =
           [tarif |-> LayoutOptions(TarifKeys),
            kirchensteuer |-> LayoutOptions(<<"N", "Y">>),
            region |-> LayoutOptions(RegionKeys)]
    /\ ui_error = "none"
    /\ region_selector = NoRegion
    /\ canton_selector = NoList
    /\ income_slider = DefaultIncomeRange
    /\ kirchensteuer_selector = Str(<<"N">>)
    /\ tarif_selector = Str(<<"A">>)
    /\ children_selector = Num(0)
    /\ canton_plot = NoFigure
    /\ callback_error = "none"
    /\ events = 0

----------------------------------------------------------------------------
(* process_txt_files *)

Init ==
    /\ \E body \in Bodies : \E cuts \in SUBSET (1..(Len(body) + 1)) :
           files = Split(<<HeaderLine>> \o body \o <<FooterLine>>, cuts)
    /\ combined = NoFile
    /\ cleaned_csv = NoFile
    /\ df = <<>>
    /\ df_src = <<>>
    /\ pc = "start"
    /\ err = "none"
    /\ recreate_data = FALSE
    /\ app_df = <<>>
    /\ LayoutDefaults
    /\ NoParallelApply

\* load_data with the test on the file left out
NeedsIngestFlagOnly == recreate_data

\* load_data: `if recreate_data or not os.path.exists(cleaned_file)`
NeedsIngest == recreate_data \/ ~cleaned_csv.exists

\* load_data calls process_txt_files, which starts with
\* subprocess.run(f'cat {input_folder}/*.txt > {combined_file}', shell=True)
ConcatFiles ==
    /\ pc = "start"
    /\ NeedsIngest
    /\ combined' = FileOf(Concat(files))
    /\ pc' = "concatenated"
    /\ UNCHANGED <<files, cleaned_csv, df, df_src, err, recreate_data>>
    /\ UNCHANGED <<appvars, parvars>>

\* read_fwf up to the currency conversion, when no step raises
DecodeTable ==
    /\ pc = "concatenated"
    /\ DecodeError(combined.content) = "none"
    /\ df' = Decoded(combined.content)
    /\ df_src' = DataLines(combined.content)
    /\ \/ pc' = "decoded" /\ err' = "none"
       \/ /\ df' = <<>>
          /\ pc' = "failed" /\ err' = "ValueError"
    /\ UNCHANGED <<files, combined, cleaned_csv, recreate_data>>
    /\ UNCHANGED <<appvars, parvars>>

\* a failing decode that cleans up after itself (os.remove in a finally)
DecodeFailsRemovesCombined ==
    /\ pc = "concatenated"
    /\ DecodeError(combined.content) # "none"
    /\ err' = DecodeError(combined.content)
    /\ pc' = "failed"
    /\ combined' = NoFile
    /\ UNCHANGED <<files, cleaned_csv, df, df_src, recreate_data>>
    /\ UNCHANGED <<appvars, parvars>>

\* read_fwf up to the currency conversion, when a step raises
DecodeFails ==
    /\ pc = "concatenated"
    /\ DecodeError(combined.content) # "none"
    /\ err' = DecodeError(combined.content)
    /\ pc' = "failed"
    /\ UNCHANGED <<files, combined, cleaned_csv, df, df_src, recreate_data>>
    /\ UNCHANGED <<appvars, parvars>>

\* the end of process_txt_files without its os.remove(combined_file)
SaveCleanedKeepCombined ==
    /\ pc = "decoded"
    /\ cleaned_csv' = FileOf(df)
    /\ pc' = "done"
    /\ UNCHANGED <<files, combined, df, df_src, err, recreate_data>>
    /\ UNCHANGED <<appvars, parvars>>

\* os.remove(combined_file); df.to_csv(cleaned_file, index=False); return df
SaveCleaned ==
    /\ pc = "decoded"
    /\ combined' = NoFile
    /\ cleaned_csv' = FileOf(df)
    /\ pc' = "done"
    /\ UNCHANGED <<files, df, df_src, err, recreate_data>>
    /\ UNCHANGED <<appvars, parvars>>

\* main(): df_filtered = filter_data(transform_data(df)) on the table
\* process_txt_files returned, when filter_data returns
FilterTable ==
    /\ pc \in {"done", "csv_read"}
    /\ FilterError(df) = "none"
    /\ app_df' = FilterData(df)
    /\ pc' = "filtered"
    /\ UNCHANGED <<files, combined, cleaned_csv, df, df_src, err, recreate_data>>
    /\ UNCHANGED <<loaded, current_language, region_selector, canton_selector,
                   income_slider, kirchensteuer_selector, tarif_selector,
                   children_selector, canton_plot, callback_error, events>>
    /\ UNCHANGED <<langvars, parvars>>

\* main(): filter_data raises
FilterFails ==
    /\ pc \in {"done", "csv_read"}
    /\ FilterError(df) # "none"
    /\ err' = FilterError(df)
    /\ pc' = "filter_failed"
    /\ UNCHANGED <<files, combined, cleaned_csv, df, df_src, recreate_data>>
    /\ UNCHANGED <<appvars, parvars>>

Next ==
    \/ ConcatFiles
    \/ DecodeTable
    \/ DecodeFails
    \/ SaveCleaned
    \/ FilterTable
    \/ FilterFails

Spec == Init /\ [][Next]_vars

----------------------------------------------------------------------------
(* load_data, on an output folder that may hold files of an earlier run *)

\* pd.read_csv on the text to_csv wrote: every column is inferred again, so a
\* column of strings that are all numbers (or missing) comes back numeric
CsvColumnIsNumeric(t, c) ==
    \A i \in 1..Len(t) :
        \/ t[i][c].t \in {"num", "nan"}
        \/ t[i][c].t = "str" /\ IsNumStr(t[i][c].s)

ReadCsvTable(t) ==
    [i \in 1..Len(t) |->
        [c \in DOMAIN t[i] |->
            IF c = "is_integer" THEN t[i][c]
            ELSE IF t[i][c].t = "str" /\ CsvColumnIsNumeric(t, c)
                 THEN Num(ParseNat(t[i][c].s))
            ELSE t[i][c]]]

\* taxable income of exactly 30 000.00 and of 30 000.01
RecAt30000 ==
    MkLine(<<"0", "6">>, <<"Z", "H">>, <<"A", "0", "N">>, ZeroPad(3000000, 9),
           <<"0", "0">>, ZeroPad(0, 9), ZeroPad(1200, 5))

RecAbove30000 ==
    MkLine(<<"0", "6">>, <<"Z", "H">>, <<"A", "0", "N">>, ZeroPad(3000001, 9),
           <<"0", "0">>, ZeroPad(0, 9), ZeroPad(1201, 5))

\* the cleaned CSV and the combined.txt an earlier run left in the folder
OldCsv == FileOf(Decoded(<<HeaderLine, RecA0N, RecB1Y, FooterLine>>))
StaleCombined == FileOf(<<HeaderLine, RecOneChar, FooterLine>>)

LoadLines ==
    {RecA0N, RecOneChar, RecBadAmount, RecNoCode, RecBadKids, RecAt30000, RecAbove30000}

LoadBodies == UNION {[1..n -> LoadLines] : n \in 0..MaxBody}

InitLoad ==
    /\ \E body \in LoadBodies : files = << <<HeaderLine>> \o body \o <<FooterLine>> >>
    /\ combined \in {NoFile, StaleCombined}
    /\ cleaned_csv \in {NoFile, OldCsv}
    /\ recreate_data \in BOOLEAN
    /\ df = <<>>
    /\ df_src = <<>>
    /\ pc = "start"
    /\ err = "none"
    /\ app_df = <<>>
    /\ LayoutDefaults
    /\ NoParallelApply

\* load_data: df = pd.read_csv(cleaned_file)
ReadCsv ==
    /\ pc = "start"
    /\ ~NeedsIngest
    /\ df' = ReadCsvTable(cleaned_csv.content)
    /\ pc' = "csv_read"
    /\ UNCHANGED <<files, combined, cleaned_csv, df_src, err, recreate_data>>
    /\ UNCHANGED <<appvars, parvars>>

NextLoad ==
    \/ ReadCsv
    \/ ConcatFiles
    \/ DecodeTable
    \/ DecodeFails
    \/ SaveCleaned
    \/ FilterTable
    \/ FilterFails

SpecLoad == InitLoad /\ [][NextLoad]_vars

----------------------------------------------------------------------------
(* df.parallel_apply(lambda row: ..., axis=1): the rows are dealt out to *)
(* workers, each worker applies the lambda to its rows, the workers finish *)
(* in any order, and the results are assigned to df['tarif_code'] *)

\* the row as the lambda receives it: the columns up to is_integer
PreTarif(row) ==
    LET r == SplitCode(row) IN [c \in DOMAIN r \ {"tarif_code"} |-> r[c]]

\* the indices of the rows of worker w, ascending
RECURSIVE Ascending(_)
Ascending(S) == IF S = {} THEN <<>> ELSE <<MinOf(S)>> \o Ascending(S \ {MinOf(S)})

\* what worker w returns: the lambda's value for each of its rows, with
\* the row's index label
WorkerOutput(rows, chunk, w) ==
    LET idx == Ascending({i \in 1..Len(rows) : chunk[i] = w})
    IN  [k \in 1..Len(idx) |-> [index |-> idx[k], value |-> TarifCode(rows[idx[k]])]]

\* the outputs of the workers in the order the workers finished
RECURSIVE Outputs(_, _, _)
Outputs(rows, chunk, order) ==
    IF order = <<>> THEN <<>>
    ELSE WorkerOutput(rows, chunk, Head(order)) \o Outputs(rows, chunk, Tail(order))

\* the results laid against the rows by position, in order of arrival
AssignByArrival(outs, n) == [i \in 1..n |-> outs[i].value]

\* df['tarif_code'] = <Series>: the assignment aligns on the index label
AssignByIndex(outs, n) ==
    [i \in 1..n |-> outs[CHOOSE k \in 1..Len(outs) : outs[k].index = i].value]

ParLines == {RecA0N, RecAAY, RecB1Y, RecNoCode, RecOneChar}

ParBodies == UNION {[1..n -> ParLines] : n \in 1..MaxBody}

Workers == 1..MaxWorkers

InitPar ==
    /\ \E body \in ParBodies :
           LET lines == <<HeaderLine>> \o body \o <<FooterLine>>
           IN  /\ IsObjectColumn(ReadFwf(lines), "code_tarif")
               /\ files = <<lines>>
               /\ combined = FileOf(lines)
               /\ df_src = DataLines(lines)
               /\ par_rows = [i \in 1..Len(ReadFwf(lines)) |-> PreTarif(ReadFwf(lines)[i])]
               /\ chunk_of \in [1..Len(ReadFwf(lines)) -> Workers]
    /\ finished = <<>>
    /\ par_result = <<>>
    /\ cleaned_csv = NoFile
    /\ df = <<>>
    /\ pc = "applying"
    /\ err = "none"
    /\ recreate_data = FALSE
    /\ app_df = <<>>
    /\ LayoutDefaults

HasFinished(w) == \E k \in 1..Len(finished) : finished[k] = w

WorkerFinishes(w) ==
    /\ pc = "applying"
    /\ ~HasFinished(w)
    /\ finished' = Append(finished, w)
    /\ UNCHANGED <<ingvars, appvars, par_rows, chunk_of, par_result>>

\* the lambda raised in a worker ('A' + NaN): parallel_apply raises
ApplyRaises ==
    /\ pc = "applying"
    /\ \E k \in 1..Len(Outputs(par_rows, chunk_of, finished)) :
           Outputs(par_rows, chunk_of, finished)[k].value.t = "err"
    /\ pc' = "failed"
    /\ err' = "TypeError"
    /\ UNCHANGED <<files, combined, cleaned_csv, df, df_src, recreate_data>>
    /\ UNCHANGED <<appvars, parvars>>

\* every worker has returned: the column is assigned
GatherResults ==
    /\ pc = "applying"
    /\ \A w \in Workers : HasFinished(w)
    /\ \A k \in 1..Len(Outputs(par_rows, chunk_of, finished)) :
           Outputs(par_rows, chunk_of, finished)[k].value.t # "err"
    /\ par_result' = AssignByIndex(Outputs(par_rows, chunk_of, finished), Len(par_rows))
    /\ pc' = "applied"
    /\ UNCHANGED <<files, combined, cleaned_csv, df, df_src, err, recreate_data>>
    /\ UNCHANGED <<appvars, par_rows, chunk_of, finished>>

NextPar ==
    \/ \E w \in Workers : WorkerFinishes(w)
    \/ ApplyRaises
    \/ GatherResults

SpecPar == InitPar /\ [][NextPar]_vars

----------------------------------------------------------------------------
(* main(): the app on the table of one ingested file, and the user's events *)

ViewLine(kt, code, inc, kids, proz) ==
    MkLine(<<"0", "6">>, kt, code, ZeroPad(inc, 9), kids, ZeroPad(0, 9), ZeroPad(proz, 5))

\* the data lines the app's file is drawn from, in file order
ViewLines ==
    << ViewLine(<<"B", "E">>, <<"A", "0", "N">>, 500000, <<"0", "0">>, 300),
       ViewLine(<<"Z", "H">>, <<"A", "0", "N">>, 1000100, <<"0", "0">>, 500),
       ViewLine(<<"B", "E">>, <<"A", "0", "Y">>, 500000, <<"0", "0">>, 350),
       ViewLine(<<"Z", "H">>, <<"A", "0", "N">>, 199900, <<"0", "0">>, 50),
       ViewLine(<<"T", "I">>, <<"A", "0", "N">>, 500000, <<"0", "1">>, 200),
       ViewLine(<<"Z", "H">>, <<"B", "0", "N">>, 500000, <<"0", "0">>, 400),
       ViewLine(<<"B", "E">>, <<"A", "0", "N">>, 2000050, <<"0", "0">>, 900),
       ViewLine(<<"Z", "H">>, <<"A", "0", "N">>, 3000050, <<"0", "0">>, 1200) >>

\* the elements of seq at the positions in idx, in order
RECURSIVE Pick(_, _)
Pick(seq, idx) ==
    IF idx = {} THEN <<>>
    ELSE <<seq[MinOf(idx)]>> \o Pick(seq, idx \ {MinOf(idx)})

ViewBodies ==
    {Pick(ViewLines, idx) : idx \in {S \in SUBSET (1..Len(ViewLines)) :
                                        Cardinality(S) \in 1..MaxRows}}

\* int(df_filtered['steuerbares_einkommen'].min()) and .max()
min_income(t) ==
    LET c == CHOOSE a \in {t[i].steuerbares_einkommen : i \in 1..Len(t)} :
                 \A i \in 1..Len(t) : 100 * a.n + a.f <= 100 * t[i].steuerbares_einkommen.n
                                                            + t[i].steuerbares_einkommen.f
    IN  c.n

max_income(t) ==
    LET c == CHOOSE a \in {t[i].steuerbares_einkommen : i \in 1..Len(t)} :
                 \A i \in 1..Len(t) : 100 * a.n + a.f >= 100 * t[i].steuerbares_einkommen.n
                                                            + t[i].steuerbares_einkommen.f
    IN  c.n

\* positions the handles of the RangeSlider take: its two marks and steps of 500
SliderStops(t) ==
    {min_income(t), max_income(t)}
        \cup {v \in {min_income(t) + 500 * k : k \in 1..MaxSteps} : v <= max_income(t)}

\* the values a user gives the dropdowns (two of the tarif options; a
\* clearable dropdown also gives None)
KirchensteuerChoices == {Str(<<"N">>), Str(<<"Y">>), PyNone}
TarifChoices == {Str(<<"A">>), Str(<<"B">>)}
ChildrenChoices(t) == {t[i].anzahl_kinder : i \in 1..Len(t)} \cup {PyNone}
CantonChoices(t) ==
    {Pick(SortedCantons(t), idx) : idx \in SUBSET (1..Len(SortedCantons(t)))}

\* the state main() leaves: the file ingested, filter_data applied, the app created
InitApp ==
    /\ \E body \in ViewBodies :
           LET lines == <<HeaderLine>> \o body \o <<FooterLine>>
           IN  /\ files = <<lines>>
               /\ df = Decoded(lines)
               /\ df_src = DataLines(lines)
               /\ cleaned_csv = FileOf(Decoded(lines))
               /\ app_df = FilterData(Decoded(lines))
               \* create_dash_app takes int() of the minimum income: it raises
               \* on a table without rows, and no app exists then
               /\ FilterData(Decoded(lines)) # <<>>
    /\ combined = NoFile
    /\ pc = "filtered"
    /\ err = "none"
    /\ recreate_data = FALSE
    /\ LayoutDefaults
    /\ NoParallelApply

\* the callbacks with Input('current-language', 'data') other than
\* update_figure; a callback that raises leaves its outputs as they were
LanguageCallbacks(language) ==
    /\ flag_class' = update_flag_styling(language)
    /\ ui_labels' = IF update_ui_labels(language).raised = "none"
                    THEN update_ui_labels(language).labels ELSE ui_labels
    /\ dropdown_options' = IF update_dropdown_options(language).raised = "none"
                           THEN update_dropdown_options(language).options
                           ELSE dropdown_options
    /\ ui_error' = IF update_ui_labels(language).raised # "none"
                   THEN update_ui_labels(language).raised
                   ELSE update_dropdown_options(language).raised

\* the callback returning only the first canton of the region's list
update_canton_selection_first(selected_region) ==
    IF selected_region = NoRegion THEN <<>>
    ELSE IF selected_region \in DOMAIN language_regions
         THEN <<language_regions[selected_region][1]>>
    ELSE <<>>

\* update_canton_selection
update_canton_selection(selected_region) ==
    IF selected_region = NoRegion THEN <<>>
    ELSE IF selected_region \in DOMAIN language_regions
         THEN language_regions[selected_region]
    ELSE <<>>

\* the update_figure callback run on the component values given; an
\* exception leaves the figure of 'canton-plot' as it was
RunUpdateFigure(cantons, range, kirchensteuer, tarif, children, language) ==
    LET r == update_figure(app_df, cantons, range, kirchensteuer, tarif, children, language)
    IN  /\ canton_plot' = IF r.raised = "none" THEN r.figure ELSE canton_plot
        /\ callback_error' = r.raised

\* the initial callbacks: update_canton_selection, then update_figure
PageLoad ==
    /\ ~loaded /\ app_df # <<>>
    /\ loaded' = TRUE
    /\ current_language' = update_language(triggered, current_language)
    /\ canton_selector' = ListOf(update_canton_selection(region_selector))
    /\ RunUpdateFigure(canton_selector', income_slider, kirchensteuer_selector,
                       tarif_selector, children_selector, current_language)
    /\ LanguageCallbacks(current_language')
    /\ UNCHANGED <<ingvars, parvars, app_df, triggered, region_selector, income_slider,
                   kirchensteuer_selector, tarif_selector, children_selector, events>>

UserEvent == loaded /\ events < MaxEvents /\ events' = events + 1

MoveIncomeSlider ==
    /\ UserEvent
    /\ \E lo \in SliderStops(app_df) : \E hi \in SliderStops(app_df) :
           /\ lo <= hi
           /\ income_slider' = <<lo, hi>>
    /\ RunUpdateFigure(canton_selector, income_slider', kirchensteuer_selector,
                       tarif_selector, children_selector, current_language)
    /\ UNCHANGED <<ingvars, parvars, langvars, app_df, loaded, current_language, region_selector,
                   canton_selector, kirchensteuer_selector, tarif_selector,
                   children_selector>>

\* the church-tax query with the mask applied to df_filtered itself
\* (rows dropped in place) instead of to a view of it
ChooseKirchensteuerInPlace ==
    /\ UserEvent
    /\ \E v \in KirchensteuerChoices : kirchensteuer_selector' = v
    /\ app_df' = SelectSeq(app_df, LAMBDA r : CellEq(r.kirchensteuer, kirchensteuer_selector'))
    /\ RunUpdateFigure(canton_selector, income_slider, kirchensteuer_selector',
                       tarif_selector, children_selector, current_language)
    /\ UNCHANGED <<ingvars, parvars, langvars, loaded, current_language, region_selector,
                   canton_selector, income_slider, tarif_selector, children_selector>>

ChooseKirchensteuer ==
    /\ UserEvent
    /\ \E v \in KirchensteuerChoices : kirchensteuer_selector' = v
    /\ RunUpdateFigure(canton_selector, income_slider, kirchensteuer_selector',
                       tarif_selector, children_selector, current_language)
    /\ UNCHANGED <<ingvars, parvars, langvars, app_df, loaded, current_language, region_selector,
                   canton_selector, income_slider, tarif_selector, children_selector>>

ChooseTarif ==
    /\ UserEvent
    /\ \E v \in TarifChoices : tarif_selector' = v
    /\ RunUpdateFigure(canton_selector, income_slider, kirchensteuer_selector,
                       tarif_selector', children_selector, current_language)
    /\ UNCHANGED <<ingvars, parvars, langvars, app_df, loaded, current_language, region_selector,
                   canton_selector, income_slider, kirchensteuer_selector,
                   children_selector>>

ChooseChildren ==
    /\ UserEvent
    /\ \E v \in ChildrenChoices(app_df) : children_selector' = v
    /\ RunUpdateFigure(canton_selector, income_slider, kirchensteuer_selector,
                       tarif_selector, children_selector', current_language)
    /\ UNCHANGED <<ingvars, parvars, langvars, app_df, loaded, current_language, region_selector,
                   canton_selector, income_slider, kirchensteuer_selector,
                   tarif_selector>>

\* the region dropdown: update_canton_selection sets the cantons, then update_figure
ChooseRegion ==
    /\ UserEvent
    /\ \E r \in DOMAIN language_regions \cup {NoRegion} : region_selector' = r
    /\ canton_selector' = ListOf(update_canton_selection(region_selector'))
    /\ RunUpdateFigure(canton_selector', income_slider, kirchensteuer_selector,
                       tarif_selector, children_selector, current_language)
    /\ UNCHANGED <<ingvars, parvars, langvars, app_df, loaded, current_language, income_slider,
                   kirchensteuer_selector, tarif_selector, children_selector>>

\* the multi-select canton dropdown, its options the cantons of the table
ChooseCantons ==
    /\ UserEvent
    /\ \E sel \in CantonChoices(app_df) :
           canton_selector' = ListOf([k \in 1..Len(sel) |-> Text(sel[k])])
    /\ RunUpdateFigure(canton_selector', income_slider, kirchensteuer_selector,
                       tarif_selector, children_selector, current_language)
    /\ UNCHANGED <<ingvars, parvars, langvars, app_df, loaded, current_language, region_selector,
                   income_slider, kirchensteuer_selector, tarif_selector,
                   children_selector>>

\* update_language on a flag click, then update_figure on the stored language
ClickFlag ==
    /\ UserEvent
    /\ \E b \in FlagIds :
           /\ triggered' = b
           /\ current_language' = update_language(b, current_language)
    /\ LanguageCallbacks(current_language')
    /\ RunUpdateFigure(canton_selector, income_slider, kirchensteuer_selector,
                       tarif_selector, children_selector, current_language')
    /\ UNCHANGED <<ingvars, parvars, app_df, loaded, region_selector, canton_selector,
                   income_slider, kirchensteuer_selector, tarif_selector,
                   children_selector>>

NextApp ==
    \/ PageLoad
    \/ MoveIncomeSlider
    \/ ChooseKirchensteuer
    \/ ChooseTarif
    \/ ChooseChildren
    \/ ChooseRegion
    \/ ChooseCantons
    \/ ClickFlag

SpecApp == InitApp /\ [][NextApp]_vars

----------------------------------------------------------------------------
(* What the record decoder is required to produce, stated on the raw lines *)

\* characters from+1 .. to of a line (fewer when the line is shorter)
RawCut(line, from, to) ==
    [i \in 1..((IF Len(line) < to THEN Len(line) ELSE to) - from) |-> line[from + i]]

RECURSIVE LTrim(_)
LTrim(s) == IF s # <<>> /\ s[1] = " " THEN LTrim(Tail(s)) ELSE s

RECURSIVE RTrim(_)
RTrim(s) == IF s # <<>> /\ s[Len(s)] = " " THEN RTrim(SubSeq(s, 1, Len(s) - 1)) ELSE s

\* the raw tariff field of a line, surrounding whitespace trimmed
TrimmedTariff(line) == RTrim(LTrim(RawCut(line, 6, 16)))

NumericChar(c) == c \in {"0", "1", "2", "3", "4", "5", "6", "7", "8", "9"}

RECURSIVE RawInteger(_)
RawInteger(s) ==
    IF s = <<>> THEN 0
    ELSE (CHOOSE d \in 0..9 : ZeroPad(d, 1) = <<Head(s)>>) * Pow10(Len(s) - 1)
            + RawInteger(Tail(s))

\* the cell is the j-th character of code, or missing when code has none
IsCharOf(cell, code, j) ==
    IF Len(code) >= j THEN cell.t = "str" /\ cell.s = <<code[j]>> ELSE cell.t = "nan"

Returned == pc = "done"

\* every line of every file, in concatenation order
RECURSIVE AllLines(_)
AllLines(fs) ==
    IF Len(fs) = 0 THEN <<>> ELSE AllLines(SubSeq(fs, 1, Len(fs) - 1)) \o fs[Len(fs)]

\* the lines left by the header/footer trim
AfterTrim == SubSeq(AllLines(files), 2, Len(AllLines(files)) - 1)

----------------------------------------------------------------------------
(* Claims about the record decoder *)

\* C1: in every decoded record, when the second character of the trimmed raw
\* tariff code is non-numeric tarif_code is code_tarif_one followed by
\* code_tarif_two, and when it is numeric tarif_code is code_tarif_one alone.
C1_TarifCodeRule ==
    Returned =>
        \A i \in 1..Len(df) :
            LET code == TrimmedTariff(df_src[i])
            IN  Len(code) >= 2 =>
                    /\ df[i].tarif_code.t = "str"
                    /\ df[i].code_tarif_one.t = "str"
                    /\ IF NumericChar(code[2])
                       THEN df[i].is_integer
                            /\ df[i].tarif_code.s = df[i].code_tarif_one.s
                       ELSE ~df[i].is_integer
                            /\ df[i].code_tarif_two.t = "str"
                            /\ df[i].tarif_code.s =
                                   df[i].code_tarif_one.s \o df[i].code_tarif_two.s

\* a returned table holding a record of either kind ('A0N' -> 'A', 'AAY' -> 'AA')
C1_Witness ==
    /\ Returned
    /\ \E i \in 1..Len(df) :
           df_src[i] = RecA0N /\ df[i].tarif_code = Str(<<"A">>)
    /\ \E i \in 1..Len(df) :
           df_src[i] = RecAAY /\ df[i].tarif_code = Str(<<"A", "A">>)

\* C2: in every decoded record, whatever the raw tariff field holds (codes
\* of fewer than two characters included), tarif_code is a non-empty string
\* whose first character is code_tarif_one.
C2_TarifCodeNonEmpty ==
    Returned =>
        \A i \in 1..Len(df) :
            /\ df[i].tarif_code.t = "str"
            /\ Len(df[i].tarif_code.s) >= 1
            /\ df[i].code_tarif_one = Str(<<df[i].tarif_code.s[1]>>)

\* C3: in every decoded record code_tarif_one, code_tarif_two and
\* kirchensteuer are the first, second and third character of the trimmed raw
\* tariff field (missing where the field has no such character), and
\* is_integer is true exactly when code_tarif_two is a digit.
C3_CodeFields ==
    Returned =>
        \A i \in 1..Len(df) :
            LET code == TrimmedTariff(df_src[i])
            IN  /\ IsCharOf(df[i].code_tarif_one, code, 1)
                /\ IsCharOf(df[i].code_tarif_two, code, 2)
                /\ IsCharOf(df[i].kirchensteuer, code, 3)
                /\ df[i].is_integer <=> (Len(code) >= 2 /\ NumericChar(code[2]))

\* a returned table with a code that had leading blanks in its field, a code
\* with a letter second and a code with a digit second
C3_Witness ==
    /\ Returned
    /\ \E i \in 1..Len(df) :
           df_src[i] = RecB1Y /\ df[i].code_tarif_one = Str(<<"B">>)
               /\ df[i].is_integer /\ df[i].kirchensteuer = Str(<<"Y">>)
    /\ \E i \in 1..Len(df) : df_src[i] = RecAAY /\ ~df[i].is_integer

\* C4: process_txt_files produces exactly one decoded record per line left by
\* the header/footer trim, the i-th record from the i-th line.
C4_OneRecordPerLine ==
    Returned =>
        /\ Len(df) = Len(AfterTrim)
        /\ \A i \in 1..Len(df) : i <= Len(AfterTrim) => df_src[i] = AfterTrim[i]

\* C5: of the concatenated files exactly two lines are discarded, the first
\* line of the first file and the last line of the last file; every other
\* line becomes a decoded record, in concatenation order.
C5_OnlyHeaderFooterDiscarded ==
    Returned =>
        /\ Len(AllLines(files)) - Len(df) = 2
        /\ <<files[1][1]>> \o df_src \o <<files[Len(files)][Len(files[Len(files)])]>>
               = AllLines(files)

\* C6: each cent-denominated field of a decoded record, times 100, is the
\* raw integer read from the line: the two decimals are kept.
C6_CurrencyTimes100 ==
    Returned =>
        \A i \in 1..Len(df) :
            \A c \in {<<"steuerbares_einkommen", 24, 33>>, <<"mindeststeuer", 45, 54>>,
                       <<"steuer_prozent", 54, 59>>} :
                LET raw == RawCut(df_src[i], c[2], c[3])
                IN  (Len(raw) = c[3] - c[2] /\ \A k \in 1..Len(raw) : NumericChar(raw[k]))
                        => /\ df[i][c[1]].t = "num"
                           /\ df[i][c[1]].f \in 0..99
                           /\ 100 * df[i][c[1]].n + df[i][c[1]].f = RawInteger(raw)

\* a returned record whose amounts have cents: 12345.67, 10.50 and 12.34
C6_Witness ==
    /\ Returned
    /\ \E i \in 1..Len(df) :
           /\ df_src[i] = RecAAY
           /\ df[i].steuerbares_einkommen = Dec(12345, 67)
           /\ df[i].mindeststeuer = Dec(10, 50)
           /\ df[i].steuer_prozent = Dec(12, 34)

----------------------------------------------------------------------------
(* What the figure presents, read off the traces of 'canton-plot' *)

\* the cantons of the app's table, as the names the traces carry
AllCantons == {Text(app_df[i].kanton.s) : i \in 1..Len(app_df)}

\* the points of the line called name, when the figure shows it
LinePoints(fig, name) ==
    LET ps == {p \in 1..Len(fig.traces) :
                  fig.traces[p].name = name /\ fig.traces[p].visible}
    IN  IF ps = {} THEN <<>>
        ELSE LET tr == fig.traces[CHOOSE p \in ps : TRUE]
             IN  [i \in 1..Len(tr.x) |-> <<tr.x[i], tr.y[i]>>]

\* the rows presented for a canton: its grey line or its coloured line
PresentedRows(fig, c) == LinePoints(fig, c) \o LinePoints(fig, c \o "_colored")

\* the selectors' three equality criteria on a row
Matches(r) ==
    /\ CellEq(r.kirchensteuer, kirchensteuer_selector)
    /\ CellEq(r.tarif_code, tarif_selector)
    /\ CellEq(r.anzahl_kinder, children_selector)

\* income within the slider's range widened by margin on either side
InRange(r, margin) ==
    /\ Ge(r.steuerbares_einkommen, income_slider[1] - margin)
    /\ Le(r.steuerbares_einkommen, income_slider[2] + margin)

\* the rows of canton c satisfying every criterion, in table order, as points
Satisfying(c, margin) ==
    LET rows == SelectSeq(app_df, LAMBDA r : /\ Text(r.kanton.s) = c
                                             /\ Matches(r)
                                             /\ InRange(r, margin))
    IN  [i \in 1..Len(rows) |->
            <<rows[i].steuerbares_einkommen, rows[i].steuer_prozent>>]

Selected(c) == \E j \in 1..Len(canton_selector.items) : canton_selector.items[j] = c

\* update_figure has run on the current values of the controls and returned
Drawn == loaded /\ callback_error = "none"

----------------------------------------------------------------------------
(* Claims about the view *)

C8_OnlySelectedRegions ==
    (Drawn /\ canton_selector.items # <<>>) =>
        \A c \in AllCantons :
            PresentedRows(canton_plot, c) = IF Selected(c) THEN Satisfying(c, 1) ELSE <<>>

\* C8 (amended): with a non-empty region set the rows of every region are
\* still presented, in original relative order: those of a region in the set
\* on its coloured line, those of any other region on its grey line.
C8_SelectedRegionsHighlighted ==
    (Drawn /\ canton_selector.items # <<>>) =>
        \A c \in AllCantons :
            /\ LinePoints(canton_plot, c \o "_colored")
                   = IF Selected(c) THEN Satisfying(c, 1) ELSE <<>>
            /\ LinePoints(canton_plot, c)
                   = IF Selected(c) THEN <<>> ELSE Satisfying(c, 1)

\* a drawn figure with one canton selected and showing rows, and another
\* canton not selected and showing rows
C8_Witness ==
    /\ Drawn
    /\ \E c \in AllCantons : \E d \in AllCantons :
           /\ Selected(c) /\ ~Selected(d)
           /\ LinePoints(canton_plot, c \o "_colored") # <<>>
           /\ LinePoints(canton_plot, d) # <<>>

\* C9: a criterion with nothing selected imposes no constraint: with church
\* tax, child count or tariff at None the rows selected are those the other
\* criteria select, and with no region selected every region is presented.
C9_EmptyCriterionNoConstraint ==
    loaded =>
        /\ (kirchensteuer_selector = PyNone \/ children_selector = PyNone
                \/ tarif_selector = PyNone)
              => FilteredView(app_df, kirchensteuer_selector, tarif_selector,
                              children_selector)
                   = SelectSeq(app_df, LAMBDA r :
                        /\ (kirchensteuer_selector = PyNone
                               \/ CellEq(r.kirchensteuer, kirchensteuer_selector))
                        /\ (tarif_selector = PyNone
                               \/ CellEq(r.tarif_code, tarif_selector))
                        /\ (children_selector = PyNone
                               \/ CellEq(r.anzahl_kinder, children_selector)))
        /\ (Drawn /\ canton_selector.items = <<>>)
              => \A c \in AllCantons : PresentedRows(canton_plot, c) = Satisfying(c, 1)

\* C10: when the criteria match no row, update_figure completes without
\* raising and the figure is the placeholder.
C10_ZeroRowsPlaceholder ==
    (loaded /\ FilteredView(app_df, kirchensteuer_selector, tarif_selector,
                            children_selector) = <<>>)
        => /\ callback_error = "none"
           /\ canton_plot.kind = "placeholder"

\* the point a row of the table is drawn as
PointOf(r) == <<r.steuerbares_einkommen, r.steuer_prozent>>

\* the row is on the line the figure shows for its canton
Included(fig, r) ==
    \E k \in 1..Len(PresentedRows(fig, Text(r.kanton.s))) :
        PresentedRows(fig, Text(r.kanton.s))[k] = PointOf(r)

SliderUntouched == loaded /\ events = 0

RECURSIVE IsSubseq(_, _)
IsSubseq(a, b) ==
    IF a = <<>> THEN TRUE
    ELSE IF b = <<>> THEN FALSE
    ELSE IF a[1] = b[1] THEN IsSubseq(Tail(a), Tail(b))
    ELSE IsSubseq(a, Tail(b))

\* what identifies a row across filter_data
RowKey(r) ==
    <<KantonStr(r.kanton), r.tarif_code, r.kirchensteuer, r.steuerbares_einkommen,
      r.steuer_prozent>>

RowKeys(t) == [i \in 1..Len(t) |-> RowKey(t[i])]
Points(t) == [i \in 1..Len(t) |-> PointOf(t[i])]

\* C13: every filter is stable: the rows filter_data keeps are in the order
\* of the table it was given, and the rows a drawn figure presents for a
\* canton (criteria filter, then income filter) are in the order of the
\* app's table.
C13_FiltersStable ==
    /\ loaded => IsSubseq(RowKeys(app_df), RowKeys(df))
    /\ Drawn => \A c \in AllCantons :
                    IsSubseq(PresentedRows(canton_plot, c), Points(app_df))

\* two rows of one canton, the higher income first in the table, both kept
\* by every filter and presented in table order
C13_Witness ==
    /\ Drawn
    /\ \E i \in 1..Len(app_df) : \E j \in 1..Len(app_df) :
           /\ i < j
           /\ app_df[i].kanton = app_df[j].kanton
           /\ Cents(app_df[i].steuerbares_einkommen) > Cents(app_df[j].steuerbares_einkommen)
           /\ PresentedRows(canton_plot, Text(app_df[i].kanton.s))
                  = <<PointOf(app_df[i]), PointOf(app_df[j])>>

\* C14: filtering is idempotent: filter_data applied to the app's table
\* (its own result) returns that table, the selectors' filter applied to its
\* own result returns the same rows, and so does the income filter of the
\* figure.
C14_FilteringIdempotent ==
    loaded =>
        LET view == FilteredView(app_df, kirchensteuer_selector, tarif_selector,
                                 children_selector)
            line == LineRows(app_df, income_slider[1], income_slider[2])
        IN  /\ FilterData(app_df) = app_df
            /\ FilteredView(view, kirchensteuer_selector, tarif_selector,
                             children_selector) = view
            /\ LineRows(line, income_slider[1], income_slider[2]) = line

\* an app whose table is what filter_data left of a table with a row above
\* 30 000, filtered again to the same rows
C14_Witness ==
    /\ loaded
    /\ app_df # <<>>
    /\ Len(app_df) < Len(df)
    /\ FilterData(FilterData(df)) = app_df

\* one criterion applied on its own: 1 church tax, 2 tariff code, 3 child
\* count, 4 income (with the figure's margin of 1)
ApplyCriterion(n, t) ==
    SelectSeq(t, LAMBDA r :
        IF n = 1 THEN CellEq(r.kirchensteuer, kirchensteuer_selector)
        ELSE IF n = 2 THEN CellEq(r.tarif_code, tarif_selector)
        ELSE IF n = 3 THEN CellEq(r.anzahl_kinder, children_selector)
        ELSE InRange(r, 1))

\* the four criteria applied one after another in the order given
InOrder(order, t) ==
    ApplyCriterion(order[4],
        ApplyCriterion(order[3], ApplyCriterion(order[2], ApplyCriterion(order[1], t))))

CantonPoints(t, c) == Points(SelectSeq(t, LAMBDA r : Text(r.kanton.s) = c))

\* C15: filtering is commutative: the rows a drawn figure presents (all
\* criteria at once) are the rows left by applying the church-tax, tariff,
\* child-count and income criteria one after another, in every order.
C15_CriteriaCommute ==
    Drawn =>
        \A order \in Permutations(1..4) :
            \A c \in AllCantons :
                PresentedRows(canton_plot, c) = CantonPoints(InOrder(order, app_df), c)

\* a drawn figure on a table with one row failing only an equality criterion
\* and another row failing only the income criterion
C15_Witness ==
    /\ Drawn
    /\ \E i \in 1..Len(app_df) : ~Matches(app_df[i]) /\ InRange(app_df[i], 1)
    /\ \E j \in 1..Len(app_df) : Matches(app_df[j]) /\ ~InRange(app_df[j], 1)

----------------------------------------------------------------------------
(* Claims about malformed input *)

\* process_txt_files has finished reading the lines, with or without a table
Ingested == pc \notin {"start", "concatenated"}

\* C16: if any input line has fewer than 62 characters the whole ingest
\* fails with a parse error; no table is produced from such input.
C16_ShortLineFailsIngest ==
    (Ingested /\ \E k \in 1..Len(AllLines(files)) : Len(AllLines(files)[k]) < LineWidth)
        => pc = "failed" /\ err = "ParserError"

\* C17: if a cent-denominated field of a line is not a number (text or
\* blank) the ingest fails with a decode error, and no returned table holds
\* a missing value in a currency field.
C17_NoMissingCurrency ==
    /\ (Ingested /\ \E i \in 1..Len(DataLines(AllLines(files))) :
                        \E c \in {<<24, 33>>, <<45, 54>>, <<54, 59>>} :
                            ~IsNumStr(Strip(RawCut(DataLines(AllLines(files))[i], c[1], c[2]))))
          => pc = "failed"
    /\ Returned =>
          \A i \in 1..Len(df) : \A c \in CurrencyColumns : df[i][c].t = "num"

\* the child count filter_data is required to leave for a value it was given
ChildCountOrZero(cell) ==
    IF cell.t = "num" THEN cell
    ELSE IF cell.t = "str" /\ IsNumStr(cell.s) THEN Num(ParseNat(cell.s))
    ELSE Num(0)

\* C18: filter_data does not fail, and in every row it keeps a missing or
\* unparseable child count has become 0 and a present integer is unchanged.
C18_ChildCountDefaultsToZero ==
    pc \in {"filtered", "filter_failed"} =>
        LET kept == SelectSeq(df, LAMBDA r : Le(r.steuerbares_einkommen, 30000))
        IN  /\ pc = "filtered"
            /\ Len(app_df) = Len(kept)
            /\ \A i \in 1..Len(app_df) :
                   app_df[i].anzahl_kinder = ChildCountOrZero(kept[i].anzahl_kinder)

----------------------------------------------------------------------------
(* Claims about the table the app holds *)

\* C19: the table is immutable once produced: no page load, query or figure
\* update changes, adds or removes a row or value of the app's table or of
\* the decoded table it was filtered from.
C19_TableImmutable == [][app_df' = app_df /\ df' = df]_vars

\* after two user events, the second of which drew a figure from a proper
\* part of the table, the app still holds the table filter_data returned
C19_Witness ==
    /\ Drawn
    /\ events >= 2
    /\ Len(FilteredView(app_df, kirchensteuer_selector, tarif_selector,
                         children_selector)) < Len(app_df)
    /\ app_df = FilterData(df)

----------------------------------------------------------------------------
(* Claims about the record layout *)

\* C20: the twelve column ranges are in ascending order, each non-empty,
\* each starting where the one before ends, from position 0 to position 62,
\* with one distinct column name per range; so the slices of a full-width
\* line, put together in order, are the line itself.
C20_LayoutPartitionsLine ==
    /\ Len(colspecs) = 12
    /\ Len(column_names) = Len(colspecs)
    /\ \A j \in 1..Len(column_names) : \A k \in 1..Len(column_names) :
           column_names[j] = column_names[k] => j = k
    /\ colspecs[1][1] = 0
    /\ colspecs[Len(colspecs)][2] = 62
    /\ \A k \in 1..Len(colspecs) : colspecs[k][1] < colspecs[k][2]
    /\ \A k \in 1..(Len(colspecs) - 1) : colspecs[k][2] = colspecs[k + 1][1]
    /\ Returned =>
          \A i \in 1..Len(df_src) :
              Len(df_src[i]) = 62 =>
                  Concat([k \in 1..Len(colspecs) |->
                             Slice(df_src[i], colspecs[k][1], colspecs[k][2])]) = df_src[i]

\* a returned table read from a full-width record with every field filled
C20_Witness ==
    /\ Returned
    /\ \E i \in 1..Len(df_src) :
           /\ df_src[i] = RecAAY
           /\ df[i].recordart = Num(6)
           /\ df[i].kanton = Str(<<"B", "E">>)
           /\ df[i].anzahl_kinder = Num(1)

----------------------------------------------------------------------------
(* Claims about the ingest as a whole *)

\* a full-width line with a tariff code of two characters or more, a
\* numeric child count and numeric amounts
ValidLine(l) ==
    /\ Len(l) >= 62
    /\ Len(TrimmedTariff(l)) >= 2
    /\ \A c \in {<<24, 33>>, <<43, 45>>, <<45, 54>>, <<54, 59>>} :
           IsNumStr(Strip(RawCut(l, c[1], c[2])))

\* the record the line decodes to in a file of its own
DecodedAlone(l) == Decoded(<<HeaderLine, l, FooterLine>>)[1]

\* C21: decoding is deterministic: a valid line of at least 62 characters
\* yields the same decoded record at every position of every input, whatever
\* the other lines are: the record it yields in a file of its own.
C21_DecodingDeterministic ==
    Returned =>
        \A i \in 1..Len(df) :
            ValidLine(df_src[i]) => df[i] = DecodedAlone(df_src[i])

----------------------------------------------------------------------------
(* Claims about load_data and the files of the output folder *)

\* C23: load_data runs the ingest if and only if recreate_data is true or
\* the cleaned CSV does not exist; otherwise it only reads that CSV: the
\* table is what the CSV holds, and no file is created, changed or deleted.
C23_IngestIffNeeded ==
    [][(pc = "start" /\ pc' # "start") =>
          /\ (pc' = "concatenated") <=> (recreate_data \/ ~cleaned_csv.exists)
          /\ (pc' # "concatenated") =>
                /\ pc' = "csv_read"
                /\ df' = ReadCsvTable(cleaned_csv.content)
                /\ cleaned_csv' = cleaned_csv
                /\ combined' = combined
                /\ files' = files]_vars

\* load_data has read the CSV of the earlier run (its column of digit
\* characters read back as numbers); a combined.txt that was lying in the
\* folder is still there
C23_Witness ==
    /\ pc = "csv_read"
    /\ ~recreate_data
    /\ cleaned_csv = OldCsv
    /\ combined = StaleCombined
    /\ df = ReadCsvTable(OldCsv.content)
    /\ Len(df) = 2
    /\ OldCsv.content[1].code_tarif_two = Str(<<"0">>)
    /\ df[1].code_tarif_two = Num(0)

\* C24: after every successful run of process_txt_files the cleaned CSV
\* exists and holds one row per decoded record, and combined.txt does not
\* exist any more.
C24_CleanedWrittenCombinedRemoved ==
    Returned =>
        /\ cleaned_csv.exists
        /\ Len(cleaned_csv.content) = Len(df)
        /\ ~combined.exists

\* a forced re-ingest that returned two records
C24_Witness ==
    /\ Returned
    /\ recreate_data
    /\ Len(df) = 2
    /\ cleaned_csv = FileOf(df)
    /\ cleaned_csv # OldCsv
    /\ combined = NoFile

\* C30: if process_txt_files fails at a decode step after the concatenation,
\* that run writes no cleaned CSV (an existing one keeps its content) and
\* combined.txt is left behind, holding the concatenated lines.
C30_FailureLeavesCsvAndCombined ==
    /\ [][pc' = "failed" => cleaned_csv' = cleaned_csv]_vars
    /\ [](pc = "failed" =>
             /\ cleaned_csv \in {NoFile, OldCsv}
             /\ combined = FileOf(Concat(files)))

\* a forced re-ingest that failed on a line it cannot decode, with the
\* earlier run's CSV still in place
C30_Witness ==
    /\ pc = "failed"
    /\ err \in {"AttributeError", "TypeError", "ValueError"}
    /\ recreate_data
    /\ cleaned_csv = OldCsv
    /\ combined.exists
    /\ Len(combined.content) >= 3

\* C25: filter_data returns exactly the records whose taxable income is
\* below 30 000: none with 30 000 or more, and every one below.
C25_OnlyBelow30000 ==
    pc = "filtered" =>
        RowKeys(app_df)
            = RowKeys(SelectSeq(df, LAMBDA r :
                          /\ r.steuerbares_einkommen.t = "num"
                          /\ Cents(r.steuerbares_einkommen) < 3000000))

----------------------------------------------------------------------------
(* Claims about the parallel map *)

\* C22: the parallel computation of tarif_code equals the sequential loop:
\* however the rows are dealt out to workers and in whatever order the
\* workers finish, row i's tarif_code is the lambda's value for row i, the
\* value process_txt_files' table has for that row.
C22_ParallelEqualsSequential ==
    pc = "applied" =>
        /\ par_result = [i \in 1..Len(par_rows) |-> TarifCode(par_rows[i])]
        /\ \A i \in 1..Len(par_rows) :
               par_result[i] = Decoded(combined.content)[i].tarif_code

\* two rows with different tarif codes on different workers, the worker of
\* the second row finishing first
C22_Witness ==
    /\ pc = "applied"
    /\ Len(par_rows) >= 2
    /\ chunk_of[1] # chunk_of[2]
    /\ finished[1] = chunk_of[2]
    /\ par_result[1] # par_result[2]

----------------------------------------------------------------------------
(* Claims about the traces of the figure *)

\* the regions with a row in the view the dropdowns select
ViewRegions == {app_df[i].kanton.s : i \in {j \in 1..Len(app_df) : Matches(app_df[j])}}

\* the place of region c among the regions of the view in alphabetical
\* order, counted from 0
RegionIdx(c) == Cardinality({d \in ViewRegions : StrLess(d, c)})

\* C26: the figure update_figure returns for a non-empty view holds exactly
\* three traces per region of the view in alphabetical region order, and
\* one label annotation per region in the same order: traces 3*idx,
\* 3*idx+1, 3*idx+2 are the grey line, the coloured line and the connector
\* of the region at place idx, and annotation idx is its label.
C26_ThreeTracesAndLabelPerRegion ==
    Drawn =>
        /\ Len(canton_plot.traces) = 3 * Cardinality(ViewRegions)
        /\ Len(canton_plot.annotations) >= Cardinality(ViewRegions)
        /\ \A c \in ViewRegions :
               LET idx == RegionIdx(c)
               IN  /\ canton_plot.traces[3 * idx + 1].name = Text(c)
                   /\ canton_plot.traces[3 * idx + 1].legendgroup = Text(c)
                   /\ canton_plot.traces[3 * idx + 2].name = Text(c) \o "_colored"
                   /\ canton_plot.traces[3 * idx + 2].legendgroup = Text(c)
                   /\ canton_plot.traces[3 * idx + 3].name = ""
                   /\ canton_plot.traces[3 * idx + 3].legendgroup = Text(c)
                   /\ canton_plot.annotations[idx + 1].text = CantonLabel(c)
        /\ \A a \in 1..Len(canton_plot.annotations) :
               a > Cardinality(ViewRegions) =>
                   \A c \in ViewRegions : canton_plot.annotations[a].text # CantonLabel(c)

\* a drawn figure of two regions, one of them selected
C26_Witness ==
    /\ Drawn
    /\ Cardinality(ViewRegions) >= 2
    /\ \E c \in ViewRegions : Selected(Text(c))
    /\ \E c \in ViewRegions : RegionIdx(c) = 1 /\ canton_plot.traces[5].visible

\* the canton selection without the cantons that have no row in the view
SelectionInView ==
    SelectSeq(canton_selector.items, LAMBDA x : \E c \in ViewRegions : Text(c) = x)

\* C27: after update_figure on a non-empty view exactly one of the grey and
\* the coloured line of every region of the view is visible, the coloured
\* one iff the region is among the selected cantons; a selected canton with
\* no row in the view changes nothing; and this for every value of the
\* canton selection, the empty one included.
C27_OneLineVisiblePerRegion ==
    Drawn =>
        /\ \A c \in ViewRegions :
               /\ canton_plot.traces[3 * RegionIdx(c) + 2].visible = Selected(Text(c))
               /\ canton_plot.traces[3 * RegionIdx(c) + 1].visible = ~Selected(Text(c))
        /\ canton_plot = update_figure(app_df, ListOf(SelectionInView), income_slider,
                                       kirchensteuer_selector, tarif_selector,
                                       children_selector, current_language).figure

\* a drawn figure with a selected region, an unselected region and a
\* selected canton that has no row in the view
C27_Witness ==
    /\ Drawn
    /\ \E c \in ViewRegions : Selected(Text(c))
    /\ \E c \in ViewRegions : ~Selected(Text(c))
    /\ SelectionInView # canton_selector.items

\* a drawn figure with nothing selected: every grey line visible
C27_WitnessNoSelection ==
    /\ Drawn
    /\ canton_selector.items = <<>>
    /\ Cardinality(ViewRegions) >= 2

----------------------------------------------------------------------------
(* Claims about the region selector *)

\* the canton codes of a region's list
RegionCodes(r) == {language_regions[r][k] : k \in 1..Len(language_regions[r])}

\* C29: whenever the region selector changes, the canton selection becomes
\* exactly the canton list of the chosen region, whatever it was before, and
\* the empty list when the region is cleared; every canton code of every
\* region list has an entry in the canton-name table; and the German,
\* French and Italian lists are pairwise disjoint and together hold all 26
\* cantons.
C29_RegionReplacesCantonSelection ==
    /\ [][region_selector' # region_selector =>
             canton_selector' =
                 ListOf(IF region_selector' = NoRegion THEN <<>>
                        ELSE language_regions[region_selector'])]_vars
    /\ [](/\ \A r \in DOMAIN language_regions : RegionCodes(r) \subseteq DOMAIN canton_names
          /\ RegionCodes("German") \cap RegionCodes("French") = {}
          /\ RegionCodes("German") \cap RegionCodes("Italian") = {}
          /\ RegionCodes("French") \cap RegionCodes("Italian") = {}
          /\ RegionCodes("German") \cup RegionCodes("French") \cup RegionCodes("Italian")
                 = DOMAIN canton_names
          /\ Cardinality(DOMAIN canton_names) = 26
          /\ \A r \in {"German", "French", "Italian"} :
                 Cardinality(RegionCodes(r)) = Len(language_regions[r]))

\* a region chosen and its list in the canton selector, with a canton that
\* the canton dropdown does not offer, so that no manual selection made it
C29_Witness ==
    /\ loaded
    /\ region_selector # NoRegion
    /\ canton_selector = ListOf(language_regions[region_selector])
    /\ \E k \in 1..Len(canton_selector.items) : canton_selector.items[k] \notin AllCantons
    /\ \E k \in 1..Len(canton_selector.items) : canton_selector.items[k] \in AllCantons

----------------------------------------------------------------------------
(* Claims about the language *)

\* the language a flag stands for
FlagLanguage ==
    [b \in FlagIds |-> IF b = "flag-en" THEN "en" ELSE IF b = "flag-de" THEN "de"
                        ELSE IF b = "flag-fr" THEN "fr" ELSE "it"]

\* C28: after any sequence of flag clicks the stored language is one of en,
\* de, fr, it and is that of the flag clicked last, en when none was
\* clicked; exactly one flag carries the active class, the flag of the
\* current language; and every label, tariff, church-tax and region-name
\* lookup made for that language finds its key, so that the labels and
\* options shown after the page has loaded are those of the language.
C28_LanguageFollowsLastFlag ==
    /\ current_language \in {"en", "de", "fr", "it"}
    /\ current_language = IF triggered = NotTriggered THEN "en" ELSE FlagLanguage[triggered]
    /\ {l \in DOMAIN flag_class : flag_class[l] = "language-flag active"}
           = {current_language}
    /\ ui_error = "none"
    /\ callback_error # "KeyError"
    /\ loaded =>
          /\ ui_labels = [k \in 1..Len(LabelKeys) |-> current_language \o ":" \o LabelKeys[k]]
          /\ \A k \in 1..Len(TarifKeys) :
                 dropdown_options.tarif[k].label = current_language \o ":" \o TarifKeys[k]
          /\ \A k \in 1..2 :
                 dropdown_options.kirchensteuer[k].label
                    = current_language \o ":" \o <<"N", "Y">>[k]
          /\ \A k \in 1..Len(RegionKeys) :
                 dropdown_options.region[k].label = current_language \o ":" \o RegionKeys[k]

\* the Italian flag clicked as the second of two events
C28_Witness ==
    /\ events = 2
    /\ triggered = "flag-it"
    /\ current_language = "it"
    /\ flag_class.it = "language-flag active"
    /\ ui_labels[1] = "it:income_range"
    /\ dropdown_options.region[4].label = "it:Multilingual"

====
